---- MODULE Spec2Model ----
(***************************************************************************)
(* backtesthub: the Backtest orchestrator (src/backtesthub/backtest.py)    *)
(* and the Strategy contract (src/backtesthub/strategy.py).                *)
(*                                                                         *)
(* One Backtest object is modelled.  Its run() method is a sequential      *)
(* process whose position is pc; every call it makes on a collaborator     *)
(* (Broker, Pipeline, Strategy) is one step.  Line, Base/Asset, Broker,    *)
(* Pipeline, Calendar and utils.config are outside these two files; what   *)
(* the model needs of them follows spec.md.                                *)
(***************************************************************************)
EXTENDS Integers, Sequences, FiniteSets, TLC

\* ------------------------------------------------------------------ bounds
MaxDays == 3
MaxAdds == 3
MaxRuns == 2

None == "None"
NoTicker == <<>>

\* ----------------------------------------------------------------- tickers
\* A ticker is a string; it is kept as a tuple of characters so that
\* str.upper() is computed and not assumed.
CARRY_U == <<"C", "A", "R", "R", "Y">>
CARRY_L == <<"c", "a", "r", "r", "y">>
USDBRL_U == <<"U", "S", "D", "B", "R", "L">>
USDBRL_M == <<"U", "s", "d", "B", "r", "l">>
IBOV_U == <<"I", "B", "O", "V">>
IBOV_L == <<"i", "b", "o", "v">>
XAU == <<"X", "A", "U">>
BIAU39 == <<"B", "I", "A", "U", "3", "9">>
DOL == <<"D", "O", "L">>

Lower == <<"a", "b", "c", "d", "i", "l", "o", "r", "s", "v", "y">>
Capital == <<"A", "B", "C", "D", "I", "L", "O", "R", "S", "V", "Y">>

\* str.upper() on one character and on a string
UpperChar(c) ==
  IF \E i \in DOMAIN Lower : Lower[i] = c
  THEN Capital[CHOOSE i \in DOMAIN Lower : Lower[i] = c]
  ELSE c

Upper(t) == [i \in DOMAIN t |-> UpperChar(t[i])]

\* utils.config
_DEFAULT_CARRY == CARRY_U
_DEFAULT_MARKET == IBOV_U
_DEFAULT_PAIRS == {USDBRL_U}
_DEFAULT_MAX_LOSS == -80

\* the tickers the run-loop specification registers
BaseTickers == {XAU}
AssetTickers == {BIAU39, XAU}
HedgeTickers == {DOL}
\* the tickers the add_base specification registers
ForwardTickers == {CARRY_U, CARRY_L, USDBRL_U, USDBRL_M, IBOV_U, IBOV_L, XAU}

\* the cumulative returns (in percent) the Broker may report
Returns == {-90, -80}

\* collaborator kinds handed to config_hedge
PipelineKinds == {"Single", "Rolling"}
StrategyKinds == {"Riskpar_BuyNHold", "Hedge_Expo"}
HedgePipelines == {"Rolling", "object"}
HedgeStrategies == {"Hedge_Expo", "object"}

VARIABLES
  lastpos,    \* position of __lastdate in __index (len(index) - 1)
  main,       \* cursor of the main clock Line
  broker,     \* the Broker: clock, cum_return, registered curr/carry/market
  bases,      \* __bases   : OrderedDict ticker -> Base  (insertion order)
  assets,     \* __assets  : OrderedDict ticker -> Asset
  hedges,     \* __hedges  : OrderedDict ticker -> Asset
  hpair,      \* __hpipeline/__hstrategy: None, or the two kinds
  pc,         \* position of run()
  result,     \* outcome of the last call on the Backtest
  calls,      \* calls made in the current iteration of the loop, in order
  inits,      \* init() calls made by the current run(), in order
  ticks,      \* iterations begun by the current run()
  tickBase,   \* clock cursor when the current iteration began
  halt,       \* the current (or last) run() was stopped by the max-loss test
  tripped,    \* some run() was stopped by the max-loss test
  indicators, \* Strategy.indicators of the primary Strategy: name -> Line
  lastRead,   \* the last Line read made by a Pipeline/Strategy next()
  hooks,      \* Broker registration hooks called by the last add_base
  adds,       \* number of add_* calls so far
  runs,       \* number of run() calls so far
  lateAdd,    \* some add_* call came after a run() had begun
  bt,         \* what the identity of this Backtest is computed from, and __uid
  peer,       \* the same of a second Backtest
  held,       \* the registries as seen through the references handed to the
              \* Pipelines and Strategies: <<collaborator, argument>> -> dict
  firstBase,  \* ticker of the first add_base call
  built,      \* the arguments of Backtest(...) and the attributes it set
  book,       \* what the bookname property last returned
  ledger      \* the Broker.order calls made through Strategy.buy/sell

vars == <<lastpos, main, broker, bases, assets, hedges, hpair, pc, result,
          calls, inits, ticks, tickBase, halt, tripped, indicators, lastRead,
          hooks, adds, runs, lateAdd, bt, peer, held, firstBase, built, book,
          ledger>>

\* ------------------------------------------------------------ OrderedDict
Keys(d) == {d[i].ticker : i \in DOMAIN d}

Has(d, t) == t \in Keys(d)

\* a freshly built Base/Asset: its Lines stand at the first position
Fresh(t) == [ticker |-> t, cur |-> 0]

\* dict.update({ticker: obj}): an existing key keeps its place
Update(d, t) ==
  IF Has(d, t)
  THEN [i \in DOMAIN d |-> IF d[i].ticker = t THEN Fresh(t) ELSE d[i]]
  ELSE Append(d, Fresh(t))

\* Backtest.base / Backtest.hbase: the first / the last value of __bases
base(b) == b[1]

hbase(b) == b[Len(b)]

\* Backtest.datas: {**bases, **assets, **hedges}; a later mapping wins a
\* ticker.  Given as the set of <<registry, ticker>> of the winning objects.
datas(b, a, h) ==
  {<<"bases", t>> : t \in (Keys(b) \ Keys(a)) \ Keys(h)}
    \cup {<<"assets", t>> : t \in Keys(a) \ Keys(h)}
    \cup {<<"hedges", t>> : t \in Keys(h)}

\* data.next() for every value of datas
NextAllTwice(reg, d, ds) ==
  [i \in DOMAIN d |->
     IF <<reg, d[i].ticker>> \in ds
     THEN [d[i] EXCEPT !.cur = @ + 2]
     ELSE d[i]]

NextAll(reg, d, ds) ==
  [i \in DOMAIN d |->
     IF <<reg, d[i].ticker>> \in ds
     THEN [d[i] EXCEPT !.cur = @ + 1]
     ELSE d[i]]


\* --------------------------------------------------------------- Line
\* Line.__getitem__(off): the position whose value is returned; none (the
\* empty set) when the offset lies before the start of history or ahead of
\* the cursor.
LineGet(cur, off) ==
  IF off > 0 \/ cur + off < 0 THEN {} ELSE {cur + off}

Offsets == {-1, 0, 1}

IndicatorNames == {"signal"}

Curs(d) == {d[i].cur : i \in DOMAIN d}

\* the Line cursors a collaborator holds a reference to
Readable(who) ==
  CASE who = "pipeline.next" -> Curs(assets)
    [] who = "strategy.next" ->
         Curs(bases) \cup Curs(assets) \cup {i.cur : i \in indicators}
    [] who = "hpipeline.next" -> Curs(hedges)
    [] who = "hstrategy.next" -> Curs(bases) \cup Curs(hedges)

NoRead == [pos |-> {}, off |-> 0, cur |-> 0, clock |-> 0]

\* ------------------------------------------------------ shared references
\* The keyword arguments __init__ and config_hedge hand to each collaborator.
\* A Python argument is a reference: each is given by the attribute of the
\* Backtest that holds the same object.
ArgsOneRegistry(who) ==
  CASE who = "pipeline" ->
         [main |-> "main", broker |-> "broker", assets |-> "assets"]
    [] who = "strategy" ->
         [broker |-> "broker", pipeline |-> "pipeline", bases |-> "bases",
          assets |-> "assets"]
    [] who = "hpipeline" ->
         [main |-> "main", broker |-> "broker", assets |-> "assets"]
    [] who = "hstrategy" ->
         [broker |-> "broker", pipeline |-> "hpipeline", bases |-> "bases",
          assets |-> "assets"]

Args(who) ==
  CASE who = "pipeline" ->
         [main |-> "main", broker |-> "broker", assets |-> "assets"]
    [] who = "strategy" ->
         [broker |-> "broker", pipeline |-> "pipeline", bases |-> "bases",
          assets |-> "assets"]
    [] who = "hpipeline" ->
         [main |-> "main", broker |-> "broker", assets |-> "hedges"]
    [] who = "hstrategy" ->
         [broker |-> "broker", pipeline |-> "hpipeline", bases |-> "bases",
          assets |-> "hedges"]

\* the registry arguments of the pair built by __init__ and of the pair built
\* by config_hedge
PrimarySlots ==
  {<<"pipeline", "assets">>, <<"strategy", "bases">>, <<"strategy", "assets">>}
HedgeSlots ==
  {<<"hpipeline", "assets">>, <<"hstrategy", "bases">>,
   <<"hstrategy", "assets">>}

\* the object a slot refers to
Obj(k) == Args(k[1])[k[2]]

\* the current content of a registry object
Registry(o) ==
  CASE o = "bases" -> bases
    [] o = "assets" -> assets
    [] o = "hedges" -> hedges

\* dict.update() and data.next() change the object in place: whoever holds a
\* reference to object o sees its new content d
SeenSnapshot(h, o, d) == h

Seen(h, o, d) == [k \in DOMAIN h |-> IF Obj(k) = o THEN d ELSE h[k]]

\* ------------------------------------------------------------ add_base
\* the Broker hooks add_base forwards to, in call order
ForwardsLower(t) ==
  (IF t \in _DEFAULT_PAIRS THEN <<"add_curr">> ELSE <<>>)
    \o (IF t = _DEFAULT_CARRY THEN <<"add_carry">> ELSE <<>>)
    \o (IF t = _DEFAULT_MARKET THEN <<"add_market">> ELSE <<>>)

Forwards(t) ==
  (IF Upper(t) \in _DEFAULT_PAIRS THEN <<"add_curr">> ELSE <<>>)
    \o (IF Upper(t) = _DEFAULT_CARRY THEN <<"add_carry">> ELSE <<>>)
    \o (IF Upper(t) = _DEFAULT_MARKET THEN <<"add_market">> ELSE <<>>)

Called(hs, h) == \E i \in DOMAIN hs : hs[i] = h

\* Broker.add_curr / add_carry / add_market
Register(b, hs, t) ==
  [b EXCEPT
     !.curr = IF Called(hs, "add_curr") THEN @ \cup {t} ELSE @,
     !.carry = IF Called(hs, "add_carry") THEN t ELSE @,
     !.market = IF Called(hs, "add_market") THEN t ELSE @]

Idle == pc = "idle"

AddBase(t) ==
  /\ Idle
  /\ adds < MaxAdds
  /\ bases' = Update(bases, t)
  /\ hooks' = [ticker |-> t, calls |-> Forwards(t)]
  /\ broker' = Register(broker, Forwards(t), t)
  /\ held' = Seen(held, "bases", bases')
  /\ firstBase' = IF firstBase = NoTicker THEN t ELSE firstBase
  /\ adds' = adds + 1
  /\ lateAdd' = (lateAdd \/ runs > 0)
  /\ UNCHANGED <<lastpos, main, assets, hedges, hpair, pc, result, calls,
                 inits, ticks, tickBase, halt, tripped, indicators, lastRead,
                 runs, bt, peer, built, book, ledger>>

AddAsset(t) ==
  /\ Idle
  /\ adds < MaxAdds
  /\ assets' = Update(assets, t)
  /\ held' = Seen(held, "assets", assets')
  /\ adds' = adds + 1
  /\ lateAdd' = (lateAdd \/ runs > 0)
  /\ UNCHANGED <<lastpos, main, broker, bases, hedges, hpair, pc, result,
                 calls, inits, ticks, tickBase, halt, tripped, indicators,
                 lastRead, hooks, runs, bt, peer, firstBase, built, book,
                 ledger>>

AddHedge(t) ==
  /\ Idle
  /\ adds < MaxAdds
  /\ hedges' = Update(hedges, t)
  /\ held' = Seen(held, "hedges", hedges')
  /\ adds' = adds + 1
  /\ lateAdd' = (lateAdd \/ runs > 0)
  /\ UNCHANGED <<lastpos, main, broker, bases, assets, hpair, pc, result,
                 calls, inits, ticks, tickBase, halt, tripped, indicators,
                 lastRead, hooks, runs, bt, peer, firstBase, built, book,
                 ledger>>

\* --------------------------------------------------------- config_hedge
NoPair == [pipeline |-> None, strategy |-> None]

IsStrategy(k) == k \in StrategyKinds
IsPipeline(k) == k \in PipelineKinds

ConfigHedge(p, s) ==
  /\ Idle
  /\ IF IsStrategy(s) /\ IsPipeline(p)
     THEN /\ hpair' = [pipeline |-> p, strategy |-> s]
          /\ held' = [k \in DOMAIN held \cup HedgeSlots |->
                        IF k \in HedgeSlots THEN Registry(Obj(k)) ELSE held[k]]
          /\ result' = result
     ELSE /\ hpair' = hpair
          /\ held' = held
          /\ result' = "TypeError"
  /\ UNCHANGED <<lastpos, main, broker, bases, assets, hedges, pc, calls,
                 inits, ticks, tickBase, halt, tripped, indicators, lastRead,
                 hooks, adds, runs, lateAdd, bt, peer, firstBase, built, book,
                 ledger>>

\* ---------------------------------------------------------- run identity
\* Python values that reach str(): None, a str, an int, a list of ints, a
\* dict (key/value pairs in insertion order).  Text is a tuple of characters.
PyNone == [k |-> "none"]
PyStr(s) == [k |-> "str", v |-> s]
PyInt(n) == [k |-> "int", v |-> n]
PyList(l) == [k |-> "list", v |-> l]
PyDict(d) == [k |-> "dict", v |-> d]
PyFloat(txt) == [k |-> "float", v |-> txt]

Digit == <<"0", "1", "2", "3", "4", "5", "6", "7", "8", "9">>

RECURSIVE Digits(_)
\* str(n) of a natural number
Digits(n) ==
  IF n < 10 THEN <<Digit[n + 1]>> ELSE Digits(n \div 10) \o <<Digit[(n % 10) + 1]>>

HasChar(s, c) == \E i \in DOMAIN s : s[i] = c

RECURSIVE Esc(_, _)
\* the body of repr(str): the quote in use and the backslash are escaped
Esc(s, q) ==
  IF s = <<>> THEN <<>>
  ELSE (IF Head(s) = q \/ Head(s) = "\\" THEN <<"\\", Head(s)>>
        ELSE <<Head(s)>>) \o Esc(Tail(s), q)

\* repr(str): single quotes, unless the text has a single and no double quote
ReprStr(s) ==
  LET q == IF HasChar(s, "'") /\ ~HasChar(s, "\"") THEN "\"" ELSE "'"
  IN <<q>> \o Esc(s, q) \o <<q>>

RECURSIVE Repr(_)
RECURSIVE Join(_, _)
\* ", ".join of the rendered items
Join(items, k) ==
  IF k > Len(items) THEN <<>>
  ELSE (IF k > 1 THEN <<",", " ">> ELSE <<>>) \o items[k] \o Join(items, k + 1)

\* repr() of a value; str(dict) and str(list) render their members with it
Repr(x) ==
  CASE x.k = "none" -> <<"N", "o", "n", "e">>
    [] x.k = "str" -> ReprStr(x.v)
    [] x.k = "int" -> Digits(x.v)
    [] x.k = "float" -> x.v
    [] x.k = "list" ->
         <<"[">> \o Join([i \in DOMAIN x.v |-> Repr(x.v[i])], 1) \o <<"]">>
    [] x.k = "dict" ->
         <<"{">>
           \o Join([i \in DOMAIN x.v |->
                      Repr(x.v[i][1]) \o <<":", " ">> \o Repr(x.v[i][2])], 1)
           \o <<"}">>

\* utils.config: the text of the two floats/ints that enter the map
_DEFAULT_VOLATILITY == PyFloat(<<"0", ".", "1">>)
_DEFAULT_BUFFER == PyInt(200)

K_factor == PyStr(<<"f", "a", "c", "t", "o", "r">>)
K_market == PyStr(<<"m", "a", "r", "k", "e", "t">>)
K_asset == PyStr(<<"a", "s", "s", "e", "t">>)
K_hedge == PyStr(<<"h", "e", "d", "g", "e">>)
K_base == PyStr(<<"b", "a", "s", "e">>)
K_hbase == PyStr(<<"h", "b", "a", "s", "e">>)
K_vertices == PyStr(<<"v", "e", "r", "t", "i", "c", "e", "s">>)
K_pipeline == PyStr(<<"p", "i", "p", "e", "l", "i", "n", "e">>)
K_model == PyStr(<<"m", "o", "d", "e", "l">>)
K_params == PyStr(<<"p", "a", "r", "a", "m", "s">>)
K_budget == PyStr(<<"b", "u", "d", "g", "e", "t">>)
K_buffer == PyStr(<<"b", "u", "f", "f", "e", "r">>)

\* the map config_backtest hashes (__hash)
HashOfBaseTwice(b) ==
  PyDict(<<
    <<K_factor, b.factor>>,
    <<K_market, b.market>>,
    <<K_asset, b.asset>>,
    <<K_hedge, b.hedge>>,
    <<K_base, b.base>>,
    <<K_hbase, b.base>>,
    <<K_vertices, b.vertices>>,
    <<K_pipeline, PyStr(b.pipeline)>>,
    <<K_model, PyStr(b.model)>>,
    <<K_params, PyDict(b.params)>>,
    <<K_budget, _DEFAULT_VOLATILITY>>,
    <<K_buffer, _DEFAULT_BUFFER>> >>)

HashOfDated(b) ==
  PyDict(<<
    <<K_factor, b.factor>>,
    <<K_market, b.market>>,
    <<K_asset, b.asset>>,
    <<K_hedge, b.hedge>>,
    <<K_base, b.base>>,
    <<K_hbase, b.hbase>>,
    <<K_vertices, b.vertices>>,
    <<K_pipeline, PyStr(b.pipeline)>>,
    <<K_model, PyStr(b.model)>>,
    <<K_params, PyDict(b.params)>>,
    <<K_budget, _DEFAULT_VOLATILITY>>,
    <<K_buffer, _DEFAULT_BUFFER>>,
    <<PyStr(<<"e", "d", "a", "t", "e">>), PyInt(b.edate)>> >>)

HashOf(b) ==
  PyDict(<<
    <<K_factor, b.factor>>,
    <<K_market, b.market>>,
    <<K_asset, b.asset>>,
    <<K_hedge, b.hedge>>,
    <<K_base, b.base>>,
    <<K_hbase, b.hbase>>,
    <<K_vertices, b.vertices>>,
    <<K_pipeline, PyStr(b.pipeline)>>,
    <<K_model, PyStr(b.model)>>,
    <<K_params, PyDict(b.params)>>,
    <<K_budget, _DEFAULT_VOLATILITY>>,
    <<K_buffer, _DEFAULT_BUFFER>> >>)

\* uuid3(NAMESPACE_DNS, name): the MD5-based identifier of a name, kept as
\* the term itself (two names get one identifier only if they are equal)
uuid3(ns, name) == <<"uuid3", ns, name>>

NoUid == <<>>

\* config_backtest: __hash and __uid
ConfigBacktestOf(b) == [b EXCEPT !.uid = uuid3("NAMESPACE_DNS", Repr(HashOf(b)))]

\* ------------------------------------------------ identity: the inputs
A_ == <<"A">>
B_ == <<"B">>
Quoted == <<"A", "'">>
NoneText == <<"N", "o", "n", "e">>
Single == <<"S", "i", "n", "g", "l", "e">>
Rolling == <<"R", "o", "l", "l", "i", "n", "g">>
Riskpar == <<"R", "i", "s", "k", "p", "a", "r">>
HedgeExpo == <<"H", "e", "d", "g", "e">>
P1 == PyStr(<<"p", "1">>)

MaxVertex == 2

\* the values each field of the map is drawn from
FieldDom(f) ==
  CASE f = "factor" -> {PyNone, PyStr(A_), PyStr(NoneText)}
    [] f = "market" -> {PyStr(A_), PyStr(B_)}
    [] f = "asset" -> {PyStr(A_), PyStr(Quoted)}
    [] f = "hedge" -> {PyNone, PyStr(A_)}
    [] f = "base" -> {PyStr(A_), PyStr(B_)}
    [] f = "hbase" -> {PyStr(A_), PyStr(B_)}
    [] f = "vertices" ->
         {PyNone} \cup {PyList(<<PyInt(n)>>) : n \in 1 .. MaxVertex}
           \cup {PyList(<<PyInt(1), PyInt(n)>>) : n \in 1 .. MaxVertex}
           \cup {PyList(<<PyInt(10 + n)>>) : n \in 1 .. MaxVertex}
    [] f = "pipeline" -> {Single, Rolling}
    [] f = "model" -> {Riskpar, HedgeExpo}
    [] f = "params" ->
         {<<>>} \cup {<<<<P1, PyInt(n)>>>> : n \in 1 .. MaxVertex}

\* the calendars' last dates: outside the map
Dates == {1, 2}

Example ==
  [factor |-> PyStr(A_), market |-> PyStr(A_), asset |-> PyStr(A_),
   hedge |-> PyStr(A_), base |-> PyStr(A_), hbase |-> PyStr(B_),
   vertices |-> PyNone, pipeline |-> Single, model |-> Riskpar,
   params |-> <<>>, edate |-> 2, uid |-> NoUid]

\* the fields said to decide the identity
Fields == {"factor", "market", "asset", "hedge", "base", "hbase", "vertices",
           "pipeline", "model", "params"}

Differ(x, y) == {f \in Fields : x[f] # y[f]}

\* ------------------------------------------------------------ Strategy.I
K_name == PyStr(<<"n", "a", "m", "e">>)

HasKey(params, k) == \E i \in DOMAIN params : params[i][1] = k

\* `params.pop("name", None)`: the value popped ...
Named(params) ==
  IF HasKey(params, K_name)
  THEN params[CHOOSE i \in DOMAIN params : params[i][1] = K_name][2]
  ELSE PyNone

NotName(q) == q[1] # K_name

\* ... and the params left
RestKeep(params) == params

Rest(params) == SelectSeq(params, NotName)

\* str() of a tuple whose members render as items
TupleText(items) ==
  <<"(">> \o Join(items, 1) \o (IF Len(items) = 1 THEN <<",">> ELSE <<>>)
    \o <<")">>

\* f"{f.__name__}{tuple(params.items())}"
Derived(f, params) ==
  f.name \o TupleText([i \in DOMAIN params |->
                         TupleText(<<Repr(params[i][1]), Repr(params[i][2])>>)])

\* the key of the indicator: `name`, unless it is None
Key(f, params) ==
  IF Named(params) = PyNone THEN Derived(f, Rest(params))
  ELSE Named(params).v

\* f(**params): f raises, or returns an array (a DataFrame if f.frame)
NoArray == [f |-> <<>>, args |-> <<>>, frame |-> FALSE, T |-> FALSE]

Apply(f, args) ==
  IF f.raises # None THEN [raised |-> f.raises, value |-> NoArray]
  ELSE [raised |-> None,
        value |-> [f |-> f.name, args |-> args, frame |-> f.frame, T |-> FALSE]]

\* the exception classes: Exception and its subclasses, and the others
Errors == {"ValueError", "KeyError"}
NonErrors == {"KeyboardInterrupt"}

\* `except Exception`
CatchesNothing(kind) == FALSE

Catches(kind) == kind \in Errors

\* `if isinstance(ind, pd.DataFrame): ind = ind.values.T`
Values(ind) == IF ind.frame THEN [ind EXCEPT !.frame = FALSE, !.T = TRUE] ELSE ind

\* Line(array=..., index=...)
Line(array, index) == [array |-> array, index |-> index]

\* `self.indicators[name] = Line(array=ind, index=data.index)`;
\* the new Line stands at its first position and takes the place of an entry
\* of the same name
Declare(inds, name, line) ==
  {i \in inds : i.name # name} \cup {[name |-> name, cur |-> 0, line |-> line]}

\* Strategy.I(data, f, **params) on the primary Strategy; stripped: the
\* interpreter runs without assert statements (-O)
I(data, f, params, stripped) ==
  /\ IF ~stripped /\ data.type # "Asset"
     THEN /\ result' = "AssertionError"
          /\ indicators' = indicators
     ELSE LET name == Key(f, params)
              out == Apply(f, Rest(params))
          IN IF out.raised # None
             THEN /\ result' = IF Catches(out.raised) THEN "Exception"
                                ELSE out.raised
                  /\ indicators' = indicators
             ELSE /\ result' = None
                  /\ indicators' =
                       Declare(indicators, name,
                               Line(Values(out.value), data.index))
  /\ UNCHANGED <<lastpos, main, broker, bases, assets, hedges, hpair, pc,
                 calls, inits, ticks, tickBase, halt, tripped, lastRead,
                 hooks, adds, runs, lateAdd, bt, peer, held, firstBase, built,
                 book, ledger>>

\* the declarations tried
Sig == <<"s", "i", "g">>
F_ == <<"f">>
G_ == <<"g">>
Datas ==
  {[type |-> "Asset", ticker |-> BIAU39, index |-> "index"],
   [type |-> "Asset", ticker |-> XAU, index |-> "other"],
   [type |-> "Base", ticker |-> XAU, index |-> "index"]}
Funcs ==
  {[name |-> F_, raises |-> None, frame |-> FALSE],
   [name |-> G_, raises |-> None, frame |-> TRUE],
   [name |-> F_, raises |-> "ValueError", frame |-> FALSE],
   [name |-> G_, raises |-> "KeyboardInterrupt", frame |-> FALSE]}
ParamSets ==
  {<<>>,
   <<<<K_name, PyStr(Sig)>>>>,
   <<<<P1, PyInt(1)>>>>,
   <<<<K_name, PyStr(Sig)>>, <<P1, PyInt(1)>>>>,
   <<<<K_name, PyNone>>, <<P1, PyInt(1)>>>>}

\* whether asserts are stripped matters only to data that is no Asset
Modes(d) == IF d.type = "Asset" THEN {FALSE} ELSE BOOLEAN

\* ------------------------------------------------- Strategy.buy / sell
MaxOrders == 2

\* abs()
AbsId(x) == x

Abs(x) == IF x < 0 THEN -x ELSE x

\* Broker.order(ticker, size, price): what the Broker hands back
BrokerOrder(t, size, price) == [ticker |-> t, size |-> size, price |-> price]

\* the Strategy objects that exist: the hedge one once config_hedge has run
Exists(who) == who = "strategy" \/ (who = "hstrategy" /\ hpair # NoPair)

\* `return self.__broker.order(ticker, size, price)` made by Strategy `who`
\* inside method via, called with the arguments given: the Broker object
\* that received the order, what it received, its result and what the
\* method returned
Placed(who, via, given, t, size, price) ==
  [by |-> who, via |-> via, given |-> given, broker |-> Args(who).broker,
   ticker |-> t, size |-> size, price |-> price,
   result |-> BrokerOrder(t, size, price),
   returned |-> BrokerOrder(t, size, price)]

\* Strategy.buy(ticker, size, price)
Buy(who, t, size, price) ==
  /\ Exists(who)
  /\ Len(ledger) < MaxOrders
  /\ ledger' = Append(ledger,
                      Placed(who, "buy",
                             [ticker |-> t, size |-> size, price |-> price],
                             t, Abs(size), price))
  /\ UNCHANGED <<lastpos, main, broker, bases, assets, hedges, hpair, pc,
                 result, calls, inits, ticks, tickBase, halt, tripped,
                 indicators, lastRead, hooks, adds, runs, lateAdd, bt, peer,
                 held, firstBase, built, book>>

\* Strategy.sell(ticker, size, price)
Sell(who, t, size, price) ==
  /\ Exists(who)
  /\ Len(ledger) < MaxOrders
  /\ ledger' = Append(ledger,
                      Placed(who, "sell",
                             [ticker |-> t, size |-> size, price |-> price],
                             t, -Abs(size), price))
  /\ UNCHANGED <<lastpos, main, broker, bases, assets, hedges, hpair, pc,
                 result, calls, inits, ticks, tickBase, halt, tripped,
                 indicators, lastRead, hooks, adds, runs, lateAdd, bt, peer,
                 held, firstBase, built, book>>

\* the orders the two Strategies try
Sizes == {-2, 0, 1}
Prices == {10}
OrderTickers == {BIAU39}

\* ------------------------------------------------------------- bookname
RISKPAR == <<"R", "I", "S", "K", "P", "A", "R">>
COMMODITIES == <<"C", "O", "M", "M", "O", "D", "I", "T", "I", "E", "S">>

\* a replacement field of an f-string: str() of the value
Str(x) ==
  CASE x.k = "none" -> NoneText
    [] x.k = "str" -> x.v

\* the truth value `if x:` tests: None and the empty string are false
Truthy(x) ==
  CASE x.k = "none" -> FALSE
    [] x.k = "str" -> x.v # <<>>

\* utils.config: the hedge methods _DEFAULT_HEDGE names
HedgeMethods == {"EXPO", "BETA"}

\* `mapper = dict(EXPO="/", BETA="#")`
mapperSwapped(m) ==
  CASE m = "EXPO" -> <<"#">>
    [] m = "BETA" -> <<"/">>

mapper(m) ==
  CASE m = "EXPO" -> <<"/">>
    [] m = "BETA" -> <<"#">>

\* the bookname property of a Backtest configured as b, in a process whose
\* _DEFAULT_HEDGE is m
bookname(b, m) ==
  LET stem == Str(b.factor) \o <<"-">> \o Str(b.market) \o <<"-">>
                \o Str(b.asset)
  IN IF Truthy(b.hedge) THEN stem \o mapper(m) \o Str(b.hedge) ELSE stem

Bookname(m) ==
  /\ Idle
  /\ book' = [method |-> m, text |-> bookname(bt, m)]
  /\ UNCHANGED <<lastpos, main, broker, bases, assets, hedges, hpair, pc,
                 result, calls, inits, ticks, tickBase, halt, tripped,
                 indicators, lastRead, hooks, adds, runs, lateAdd, bt, peer,
                 held, firstBase, built, ledger>>

\* ------------------------------------------------------------------ run
\* `if not self.__assets: return`
NoAssetsNever(a) == FALSE

NoAssets(a) == a = <<>>

\* `if self.__hedges:` (before the init() calls and in every iteration)
HedgeOn(h) == h # <<>>

\* `self.__broker.cum_return < _DEFAULT_MAX_LOSS`
BreachNever(cr) == cr < _DEFAULT_MAX_LOSS - 100

Breach(cr) == cr < _DEFAULT_MAX_LOSS

\* `self.dt < self.__lastdate`: the index is strictly increasing, so dates
\* compare as their positions do
Before(cur, last) == cur < last

\* the statement run() executes after the one at p
SuccSwapped(p, h) ==
  CASE p = "pipeline.init" -> "strategy.init"
    [] p = "strategy.init" -> IF HedgeOn(h) THEN "hpipeline.init" ELSE "while"
    [] p = "hpipeline.init" -> "hstrategy.init"
    [] p = "hstrategy.init" -> "while"
    [] p = "advance" -> "beg_of_period"
    [] p = "beg_of_period" -> "strategy.next"
    [] p = "strategy.next" -> "pipeline.next"
    [] p = "pipeline.next" -> IF HedgeOn(h) THEN "hpipeline.next"
                                               ELSE "end_of_period"
    [] p = "hpipeline.next" -> "hstrategy.next"
    [] p = "hstrategy.next" -> "end_of_period"
    [] p = "end_of_period" -> "max_loss"

Succ(p, h) ==
  CASE p = "pipeline.init" -> "strategy.init"
    [] p = "strategy.init" -> IF HedgeOn(h) THEN "hpipeline.init" ELSE "while"
    [] p = "hpipeline.init" -> "hstrategy.init"
    [] p = "hstrategy.init" -> "while"
    [] p = "advance" -> "beg_of_period"
    [] p = "beg_of_period" -> "pipeline.next"
    [] p = "pipeline.next" -> "strategy.next"
    [] p = "strategy.next" -> IF HedgeOn(h) THEN "hpipeline.next"
                                               ELSE "end_of_period"
    [] p = "hpipeline.next" -> "hstrategy.next"
    [] p = "hstrategy.next" -> "end_of_period"
    [] p = "end_of_period" -> "max_loss"

Call(op) == [op |-> op, tick |-> ticks]

\* run() with no asset registered
RunEmpty ==
  /\ Idle
  /\ runs < MaxRuns
  /\ NoAssets(assets)
  /\ result' = None
  /\ runs' = runs + 1
  /\ UNCHANGED <<lastpos, main, broker, bases, assets, hedges, hpair, pc,
                 calls, inits, ticks, tickBase, halt, tripped, indicators,
                 lastRead, hooks, adds, lateAdd, bt, peer,
                 held, firstBase, built, book, ledger>>

\* run() with assets, up to its first collaborator call: config_backtest
RunStart ==
  /\ Idle
  /\ runs < MaxRuns
  /\ ~NoAssets(assets)
  /\ runs' = runs + 1
  /\ pc' = "pipeline.init"
  /\ result' = "running"
  /\ inits' = <<>>
  /\ calls' = <<>>
  /\ ticks' = 0
  /\ lastRead' = NoRead
  /\ halt' = FALSE
  /\ bt' = ConfigBacktestOf(bt)
  /\ UNCHANGED <<lastpos, main, broker, bases, assets, hedges, hpair,
                 tickBase, tripped, indicators, hooks, adds, lateAdd, peer,
                 held, firstBase, built, book, ledger>>

PipelineInit ==
  /\ pc = "pipeline.init"
  /\ inits' = Append(inits, "pipeline.init")
  /\ pc' = Succ(pc, hedges)
  /\ UNCHANGED <<lastpos, main, broker, bases, assets, hedges, hpair, result,
                 calls, ticks, tickBase, halt, tripped, indicators, lastRead,
                 hooks, adds, runs, lateAdd, bt, peer,
                 held, firstBase, built, book, ledger>>

\* Strategy.init() is the user's: it may declare an indicator with I
StrategyInit ==
  /\ pc = "strategy.init"
  /\ inits' = Append(inits, "strategy.init")
  /\ \/ indicators' = indicators
     \/ \E n \in IndicatorNames :
          indicators' = Declare(indicators, n, Line(NoArray, "index"))
  /\ pc' = Succ(pc, hedges)
  /\ UNCHANGED <<lastpos, main, broker, bases, assets, hedges, hpair, result,
                 calls, ticks, tickBase, halt, tripped, lastRead, hooks, adds,
                 runs, lateAdd, bt, peer,
                 held, firstBase, built, book, ledger>>

\* self.__hpipeline is unset until config_hedge has run: AttributeError
UnsetNever(hp) == FALSE

Unset(hp) == hp.pipeline = None

HPipelineInit ==
  /\ pc = "hpipeline.init"
  /\ IF Unset(hpair)
     THEN /\ pc' = "idle"
          /\ result' = "AttributeError"
          /\ inits' = inits
     ELSE /\ pc' = Succ(pc, hedges)
          /\ result' = result
          /\ inits' = Append(inits, "hpipeline.init")
  /\ UNCHANGED <<lastpos, main, broker, bases, assets, hedges, hpair, calls,
                 ticks, tickBase, halt, tripped, indicators, lastRead, hooks,
                 adds, runs, lateAdd, bt, peer,
                 held, firstBase, built, book, ledger>>

HStrategyInit ==
  /\ pc = "hstrategy.init"
  /\ inits' = Append(inits, "hstrategy.init")
  /\ pc' = Succ(pc, hedges)
  /\ UNCHANGED <<lastpos, main, broker, bases, assets, hedges, hpair, result,
                 calls, ticks, tickBase, halt, tripped, indicators, lastRead,
                 hooks, adds, runs, lateAdd, bt, peer,
                 held, firstBase, built, book, ledger>>

\* the loop test; on exit run() returns the bundle
While ==
  /\ pc = "while"
  /\ IF Before(main, lastpos)
     THEN /\ pc' = "advance"
          /\ ticks' = ticks + 1
          /\ tickBase' = main
          /\ calls' = <<>>
          /\ lastRead' = NoRead
          /\ result' = result
     ELSE /\ pc' = "idle"
          /\ result' = "bundle"
          /\ lastRead' = NoRead
          /\ UNCHANGED <<ticks, tickBase, calls,
                 held, firstBase, built, book, ledger>>
  /\ UNCHANGED <<lastpos, main, broker, bases, assets, hedges, hpair, inits,
                 halt, tripped, indicators, hooks, adds, runs, lateAdd, bt,
                 peer,
                 held, firstBase, built, book, ledger>>

\* __advance_buffers
AdvanceBuffers ==
  /\ pc = "advance"
  /\ main' = main + 1
  /\ broker' = [broker EXCEPT !.clock = @ + 1]
  /\ LET ds == datas(bases, assets, hedges)
     IN /\ bases' = NextAll("bases", bases, ds)
        /\ assets' = NextAll("assets", assets, ds)
        /\ hedges' = NextAll("hedges", hedges, ds)
  /\ calls' = Append(calls, Call("advance"))
  /\ pc' = Succ(pc, hedges)
  /\ held' = Seen(Seen(Seen(held, "bases", bases'), "assets", assets'),
                  "hedges", hedges')
  /\ UNCHANGED <<lastpos, hpair, result, inits, ticks, tickBase, halt,
                 tripped, indicators, lastRead, hooks, adds, runs, lateAdd,
                 bt, peer, firstBase, built, book, ledger>>

BegOfPeriod ==
  /\ pc = "beg_of_period"
  /\ calls' = Append(calls, Call("beg_of_period"))
  /\ pc' = Succ(pc, hedges)
  /\ UNCHANGED <<lastpos, main, broker, bases, assets, hedges, hpair, result,
                 inits, ticks, tickBase, halt, tripped, indicators, lastRead,
                 hooks, adds, runs, lateAdd, bt, peer,
                 held, firstBase, built, book, ledger>>

\* a next() of a Pipeline or Strategy: it may read any Line it holds, at
\* any offset
NextOf(who) ==
  /\ pc = who
  /\ calls' = Append(calls, Call(who))
  /\ \/ lastRead' = NoRead
     \/ \E c \in Readable(who), off \in Offsets :
          lastRead' = [pos |-> LineGet(c, off), off |-> off, cur |-> c,
                       clock |-> main]
  /\ pc' = Succ(pc, hedges)
  /\ UNCHANGED <<lastpos, main, broker, bases, assets, hedges, hpair, result,
                 inits, ticks, tickBase, halt, tripped, indicators, hooks,
                 adds, runs, lateAdd, bt, peer,
                 held, firstBase, built, book, ledger>>

PipelineNext == NextOf("pipeline.next")
StrategyNext == NextOf("strategy.next")
HPipelineNext == NextOf("hpipeline.next")
HStrategyNext == NextOf("hstrategy.next")

EndOfPeriod ==
  /\ pc = "end_of_period"
  /\ calls' = Append(calls, Call("end_of_period"))
  /\ \E cr \in Returns : broker' = [broker EXCEPT !.cum_return = cr]
  /\ pc' = Succ(pc, hedges)
  /\ UNCHANGED <<lastpos, main, bases, assets, hedges, hpair, result, inits,
                 ticks, tickBase, halt, tripped, indicators, lastRead, hooks,
                 adds, runs, lateAdd, bt, peer,
                 held, firstBase, built, book, ledger>>

\* the max-loss test that ends the iteration
MaxLoss ==
  /\ pc = "max_loss"
  /\ IF Breach(broker.cum_return)
     THEN /\ pc' = "idle"
          /\ result' = "bundle"
          /\ halt' = TRUE
          /\ tripped' = TRUE
          /\ lastRead' = NoRead
     ELSE /\ pc' = "while"
          /\ UNCHANGED <<result, halt, tripped, lastRead,
                 held, firstBase, built, book, ledger>>
  /\ UNCHANGED <<lastpos, main, broker, bases, assets, hedges, hpair, calls,
                 inits, ticks, tickBase, indicators, hooks, adds, runs,
                 lateAdd, bt, peer,
                 held, firstBase, built, book, ledger>>

\* ---------------------------------------------------------- specification
\* ------------------------------------------------------------- __init__
\* the statements of __init__, in order: a type check of an argument, or the
\* assignment of an attribute
Check(a) == [op |-> "check", arg |-> a]
Set(a) == [op |-> "set", arg |-> a]

InitBodyLate ==
  <<Check("strategy"), Check("pipeline"),
    Set("__index"), Set("__firstdate"), Set("__lastdate"),
    Check("calendar"),
    Set("__factor"), Set("__market"), Set("__asset"), Set("__hedge"),
    Set("__base"), Set("__hbase"), Set("__vertices"),
    Set("__main"), Set("__bases"), Set("__assets"), Set("__hedges"),
    Set("__broker"), Set("__pipeline"), Set("__strategy")>>

InitBody ==
  <<Check("strategy"), Check("pipeline"), Check("calendar"),
    Set("__index"), Set("__firstdate"), Set("__lastdate"),
    Set("__factor"), Set("__market"), Set("__asset"), Set("__hedge"),
    Set("__base"), Set("__hbase"), Set("__vertices"),
    Set("__main"), Set("__bases"), Set("__assets"), Set("__hedges"),
    Set("__broker"), Set("__pipeline"), Set("__strategy")>>

\* `isinstance(calendar, Calendar)`
IsCalendar(c) == c.kind = "Calendar"

\* the test of a check statement
Passes(a, args) ==
  CASE a = "strategy" -> IsStrategy(args.strategy)
    [] a = "pipeline" -> IsPipeline(args.pipeline)
    [] a = "calendar" -> IsCalendar(args.calendar)

RECURSIVE Exec(_, _, _)
\* run the statements: a failed check raises TypeError and ends the call;
\* attrs are the attributes assigned so far
Exec(body, args, attrs) ==
  IF body = <<>> THEN [raised |-> None, attrs |-> attrs]
  ELSE LET st == Head(body)
       IN IF st.op = "set"
          THEN Exec(Tail(body), args, Append(attrs, st.arg))
          ELSE IF Passes(st.arg, args)
               THEN Exec(Tail(body), args, attrs)
               ELSE [raised |-> "TypeError", attrs |-> attrs]

\* the arguments handed to Backtest(...)
Strategies == StrategyKinds \cup {"object"}
Pipelines == PipelineKinds \cup {"object"}
Calendars ==
  {[kind |-> "Calendar", len |-> n] : n \in 1 .. MaxDays}
    \cup {[kind |-> "list", len |-> 1]}

NoArgs ==
  [strategy |-> None, pipeline |-> None, calendar |-> [kind |-> None, len |-> 0]]

\* Backtest(strategy, pipeline, calendar)
Construct(s, p, c) ==
  /\ pc = "new"
  /\ LET args == [strategy |-> s, pipeline |-> p, calendar |-> c]
         r == Exec(InitBody, args, <<>>)
     IN /\ built' = [args |-> args, attrs |-> r.attrs]
        /\ result' = r.raised
        /\ pc' = IF r.raised = None THEN "idle" ELSE "failed"
        /\ lastpos' = IF r.raised = None THEN c.len - 1 ELSE lastpos
  /\ UNCHANGED <<main, broker, bases, assets, hedges, hpair, calls, inits,
                 ticks, tickBase, halt, tripped, indicators, lastRead, hooks,
                 adds, runs, lateAdd, bt, peer, held, firstBase, book, ledger>>

\* the state a successful Backtest("Riskpar_BuyNHold", "Single", calendar)
\* leaves
Built(n) ==
  [args |-> [strategy |-> "Riskpar_BuyNHold", pipeline |-> "Single",
             calendar |-> [kind |-> "Calendar", len |-> n]],
   attrs |-> Exec(InitBody, [strategy |-> "Riskpar_BuyNHold",
                             pipeline |-> "Single",
                             calendar |-> [kind |-> "Calendar", len |-> n]],
                  <<>>).attrs]

Held0 == [k \in PrimarySlots |-> <<>>]
NoBook == [method |-> None, text |-> <<>>]

Broker0 == [clock |-> 0, cum_return |-> 0, curr |-> {}, carry |-> NoTicker,
            market |-> NoTicker]

Init ==
  /\ lastpos \in 0 .. MaxDays - 1
  /\ main = 0
  /\ broker = Broker0
  /\ bases = <<>>
  /\ assets = <<>>
  /\ hedges = <<>>
  /\ hpair = NoPair
  /\ pc = "idle"
  /\ result = None
  /\ calls = <<>>
  /\ inits = <<>>
  /\ ticks = 0
  /\ tickBase = 0
  /\ halt = FALSE
  /\ tripped = FALSE
  /\ indicators = {}
  /\ lastRead = NoRead
  /\ hooks = [ticker |-> NoTicker, calls |-> <<>>]
  /\ adds = 0
  /\ runs = 0
  /\ lateAdd = FALSE
  /\ bt = Example
  /\ peer = Example
  /\ held = Held0
  /\ firstBase = NoTicker
  /\ built = Built(lastpos + 1)
  /\ book = NoBook
  /\ ledger = <<>>

Next ==
  \/ \E t \in BaseTickers : AddBase(t)
  \/ \E t \in AssetTickers : AddAsset(t)
  \/ \E t \in HedgeTickers : AddHedge(t)
  \/ \E p \in HedgePipelines, s \in HedgeStrategies : ConfigHedge(p, s)
  \/ RunEmpty
  \/ RunStart
  \/ PipelineInit
  \/ StrategyInit
  \/ HPipelineInit
  \/ HStrategyInit
  \/ While
  \/ AdvanceBuffers
  \/ BegOfPeriod
  \/ PipelineNext
  \/ StrategyNext
  \/ HPipelineNext
  \/ HStrategyNext
  \/ EndOfPeriod
  \/ MaxLoss

Spec == Init /\ [][Next]_vars

\* the run loop alone is not enough to exercise add_base's forwarding: this
\* specification registers bases of every kind of ticker
NextAddBase == \E t \in ForwardTickers : AddBase(t)

SpecAddBase == Init /\ [][NextAddBase]_vars

\* two Backtests built from configurations that differ in at most one field
\* of the map (and freely in their calendars), each computing its identity
InitIdentity ==
  /\ lastpos = 0
  /\ main = 0
  /\ broker = Broker0
  /\ bases = <<>>
  /\ assets = <<>>
  /\ hedges = <<>>
  /\ hpair = NoPair
  /\ pc = "idle"
  /\ result = None
  /\ calls = <<>>
  /\ inits = <<>>
  /\ ticks = 0
  /\ tickBase = 0
  /\ halt = FALSE
  /\ tripped = FALSE
  /\ indicators = {}
  /\ lastRead = NoRead
  /\ hooks = [ticker |-> NoTicker, calls |-> <<>>]
  /\ adds = 0
  /\ runs = 0
  /\ lateAdd = FALSE
  /\ \E fa \in FieldDom("factor"), at \in FieldDom("asset"),
        he \in FieldDom("hedge"), ve \in FieldDom("vertices"),
        pa \in FieldDom("params") :
       bt = [Example EXCEPT !.factor = fa, !.asset = at, !.hedge = he,
                            !.vertices = ve, !.params = pa]
  /\ \E f \in Fields, d \in Dates :
       \E v \in FieldDom(f) : peer = [bt EXCEPT ![f] = v, !.edate = d]
  /\ held = Held0
  /\ firstBase = NoTicker
  /\ built = Built(1)
  /\ book = NoBook
  /\ ledger = <<>>

\* config_backtest on this Backtest (through __repr__)
ConfigBacktest ==
  /\ Idle
  /\ bt' = ConfigBacktestOf(bt)
  /\ UNCHANGED <<lastpos, main, broker, bases, assets, hedges, hpair, pc,
                 result, calls, inits, ticks, tickBase, halt, tripped,
                 indicators, lastRead, hooks, adds, runs, lateAdd, peer,
                 held, firstBase, built, book, ledger>>

\* config_backtest on the second Backtest
PeerConfigBacktest ==
  /\ peer' = ConfigBacktestOf(peer)
  /\ UNCHANGED <<lastpos, main, broker, bases, assets, hedges, hpair, pc,
                 result, calls, inits, ticks, tickBase, halt, tripped,
                 indicators, lastRead, hooks, adds, runs, lateAdd, bt,
                 held, firstBase, built, book, ledger>>

NextIdentity == ConfigBacktest \/ PeerConfigBacktest

SpecIdentity == InitIdentity /\ [][NextIdentity]_vars

\* the configurations whose book label is asked for
BookFactors == {PyStr(RISKPAR), PyStr(A_), PyNone}
BookMarkets == {PyStr(COMMODITIES), PyStr(B_)}
BookAssets == {PyStr(BIAU39), PyStr(XAU), PyStr(Quoted)}
BookHedges == {PyNone, PyStr(<<>>), PyStr(DOL), PyStr(A_)}

InitBook ==
  /\ lastpos = 0
  /\ main = 0
  /\ broker = Broker0
  /\ bases = <<>>
  /\ assets = <<>>
  /\ hedges = <<>>
  /\ hpair = NoPair
  /\ pc = "idle"
  /\ result = None
  /\ calls = <<>>
  /\ inits = <<>>
  /\ ticks = 0
  /\ tickBase = 0
  /\ halt = FALSE
  /\ tripped = FALSE
  /\ indicators = {}
  /\ lastRead = NoRead
  /\ hooks = [ticker |-> NoTicker, calls |-> <<>>]
  /\ adds = 0
  /\ runs = 0
  /\ lateAdd = FALSE
  /\ \E fa \in BookFactors, ma \in BookMarkets, at \in BookAssets,
        he \in BookHedges :
       bt = [Example EXCEPT !.factor = fa, !.market = ma, !.asset = at,
                            !.hedge = he]
  /\ peer = Example
  /\ held = Held0
  /\ firstBase = NoTicker
  /\ built = Built(1)
  /\ book = NoBook
  /\ ledger = <<>>

NextBook == \E m \in HedgeMethods : Bookname(m)

SpecBook == InitBook /\ [][NextBook]_vars

\* the two pairs at work on one Backtest: registrations, config_hedge, and
\* the orders of the primary and of the hedge Strategy
InitOrders == Init /\ lastpos = 0

NextOrders ==
  \/ \E t \in AssetTickers : AddAsset(t)
  \/ \E t \in HedgeTickers : AddHedge(t)
  \/ \E p \in HedgePipelines, s \in HedgeStrategies : ConfigHedge(p, s)
  \/ \E who \in {"strategy", "hstrategy"}, t \in OrderTickers,
        size \in Sizes, price \in Prices : Buy(who, t, size, price)
  \/ \E who \in {"strategy", "hstrategy"}, t \in OrderTickers,
        size \in Sizes, price \in Prices : Sell(who, t, size, price)

SpecOrders == InitOrders /\ [][NextOrders]_vars

\* a Backtest from its construction on: Backtest(...) with arguments of
\* every kind, then registrations and config_hedge on the object obtained
InitNew ==
  /\ lastpos = 0
  /\ main = 0
  /\ broker = Broker0
  /\ bases = <<>>
  /\ assets = <<>>
  /\ hedges = <<>>
  /\ hpair = NoPair
  /\ pc = "new"
  /\ result = None
  /\ calls = <<>>
  /\ inits = <<>>
  /\ ticks = 0
  /\ tickBase = 0
  /\ halt = FALSE
  /\ tripped = FALSE
  /\ indicators = {}
  /\ lastRead = NoRead
  /\ hooks = [ticker |-> NoTicker, calls |-> <<>>]
  /\ adds = 0
  /\ runs = 0
  /\ lateAdd = FALSE
  /\ bt = Example
  /\ peer = Example
  /\ held = Held0
  /\ firstBase = NoTicker
  /\ built = [args |-> NoArgs, attrs |-> <<>>]
  /\ book = NoBook
  /\ ledger = <<>>

NextConstruct ==
  \/ \E s \in Strategies, p \in Pipelines, c \in Calendars : Construct(s, p, c)
  \/ \E p \in HedgePipelines, s \in HedgeStrategies : ConfigHedge(p, s)
  \/ \E t \in BaseTickers : AddBase(t)
  \/ \E t \in AssetTickers : AddAsset(t)
  \/ \E t \in HedgeTickers : AddHedge(t)

SpecConstruct == InitNew /\ [][NextConstruct]_vars

\* the primary Strategy declaring indicators
InitI == Init /\ lastpos = 0

NextI ==
  \E d \in Datas, f \in Funcs, p \in ParamSets :
    \E o \in Modes(d) : I(d, f, p, o)

SpecI == InitI /\ [][NextI]_vars

\* two Backtests of one configuration: this one registers data and
\* configures a hedge pair, the second has another calendar and nothing
\* registered; each computes its identity at any time
InitOutside ==
  /\ lastpos = 0
  /\ main = 0
  /\ broker = Broker0
  /\ bases = <<>>
  /\ assets = <<>>
  /\ hedges = <<>>
  /\ hpair = NoPair
  /\ pc = "idle"
  /\ result = None
  /\ calls = <<>>
  /\ inits = <<>>
  /\ ticks = 0
  /\ tickBase = 0
  /\ halt = FALSE
  /\ tripped = FALSE
  /\ indicators = {}
  /\ lastRead = NoRead
  /\ hooks = [ticker |-> NoTicker, calls |-> <<>>]
  /\ adds = 0
  /\ runs = 0
  /\ lateAdd = FALSE
  /\ \E fa \in FieldDom("factor"), he \in FieldDom("hedge") :
       bt = [Example EXCEPT !.factor = fa, !.hedge = he]
  /\ \E d \in Dates : peer = [bt EXCEPT !.edate = d]
  /\ held = Held0
  /\ firstBase = NoTicker
  /\ built = Built(1)
  /\ book = NoBook
  /\ ledger = <<>>

NextOutside ==
  \/ \E t \in BaseTickers : AddBase(t)
  \/ \E t \in AssetTickers : AddAsset(t)
  \/ \E t \in HedgeTickers : AddHedge(t)
  \/ \E p \in HedgePipelines, s \in HedgeStrategies : ConfigHedge(p, s)
  \/ ConfigBacktest
  \/ PeerConfigBacktest

SpecOutside == InitOutside /\ [][NextOutside]_vars

\* ============================================================ properties
Ops(cs) == [i \in DOMAIN cs |-> cs[i].op]

InTick ==
  pc \in {"advance", "beg_of_period", "pipeline.next", "strategy.next",
          "hpipeline.next", "hstrategy.next", "end_of_period", "max_loss"}

\* the specified order of the calls of one iteration
Expected(h) ==
  <<"advance", "beg_of_period", "pipeline.next", "strategy.next">>
    \o (IF h # <<>> THEN <<"hpipeline.next", "hstrategy.next">> ELSE <<>>)
    \o <<"end_of_period">>

IsPrefix(a, b) == Len(a) <= Len(b) /\ \A i \in DOMAIN a : a[i] = b[i]

\* C1: in every iteration of the run() loop the calls are, in this order and
\* each once: the advance, Broker.beg_of_period, primary Pipeline.next,
\* primary Strategy.next, then (hedges registered) hedge Pipeline.next and
\* hedge Strategy.next, last Broker.end_of_period; the call about to be made
\* is always the next one of that order; every call logged belongs to the
\* current iteration; the clock moves only in the advance, by one step, as
\* the first call of the iteration.
C1_TickOrder ==
  /\ [](InTick =>
          /\ IsPrefix(Ops(calls), Expected(hedges))
          /\ \A i \in DOMAIN calls : calls[i].tick = ticks
          /\ pc # "max_loss" => Expected(hedges)[Len(calls) + 1] = pc
          /\ pc = "max_loss" => Ops(calls) = Expected(hedges)
          /\ main = tickBase + (IF calls = <<>> THEN 0 ELSE 1))
  /\ [][main' # main =>
          /\ pc = "advance"
          /\ calls = <<>>
          /\ main' = main + 1
          /\ broker'.clock = broker.clock + 1]_vars

C1_Witness ==
  /\ pc = "max_loss"
  /\ hedges # <<>>
  /\ ticks = 2
  /\ Len(calls) = 7

\* C2: before any late registration, the Broker's clock and every registered
\* Base/Asset/Hedge have been advanced exactly as often as the main clock.
C2_AllAdvanced ==
  ~lateAdd =>
    /\ broker.clock = main
    /\ \A c \in Curs(bases) \cup Curs(assets) \cup Curs(hedges) : c = main

\* C3: when the cumulative return is below the max-loss threshold at the test
\* that follows end_of_period, that step ends run(): it returns the bundle,
\* makes no call and leaves the clock, the Broker and the data where the
\* iteration put them; from the idle state only a new run() makes calls.
C3_HaltInSameTick ==
  /\ [][(pc = "max_loss" /\ broker.cum_return < _DEFAULT_MAX_LOSS) =>
          /\ pc' = "idle"
          /\ result' = "bundle"
          /\ UNCHANGED <<main, broker, bases, assets, hedges, calls, inits,
                         ticks>>]_vars
  /\ [][(pc = "idle" /\ pc' # "idle") =>
          (runs' = runs + 1 /\ pc' = "pipeline.init")]_vars

C3_Witness ==
  /\ pc = "idle"
  /\ halt
  /\ result = "bundle"
  /\ broker.cum_return < _DEFAULT_MAX_LOSS
  /\ main = tickBase + 1
  /\ main < lastpos
  /\ Ops(calls) = Expected(hedges)

\* C4: once a run() has been stopped by the max-loss test, nothing advances
\* the clock or makes a beg_of_period/end_of_period/next() call again.
C4_NoResume ==
  [][tripped => (main' = main /\ Len(calls') <= Len(calls))]_vars

\* C5: the clock never passes the last position, a run() makes at most N-1
\* advances (N = lastpos + 1), and a run() that has ended (returned the
\* bundle or raised) ended with the clock at the last date or through the
\* max-loss test.
C5_EndsAtLastOrBreaker ==
  /\ main <= lastpos
  /\ ticks <= lastpos
  /\ (pc = "idle" /\ result \in {"bundle", "AttributeError"}) =>
       (main = lastpos \/ halt)

\* C6: with config_hedge invoked, the run() has made its four init() calls in
\* the order primary Pipeline, primary Strategy, hedge Pipeline, hedge
\* Strategy before the first iteration, and every iteration makes the four
\* next() calls, the primary pair before the hedge pair.
C6_HedgePairDriven ==
  (hpair.pipeline # None /\ (pc = "while" \/ InTick)) =>
    /\ inits = <<"pipeline.init", "strategy.init", "hpipeline.init",
                 "hstrategy.init">>
    /\ pc = "max_loss" =>
         Ops(calls) = <<"advance", "beg_of_period", "pipeline.next",
                        "strategy.next", "hpipeline.next", "hstrategy.next",
                        "end_of_period">>

\* C7: a run() call made with no asset registered returns None and changes
\* nothing else: no clock or data advance, no Broker change, no init() or
\* next() call, whatever bases and hedges are registered.
C7_EmptyRunNoOp ==
  [][(pc = "idle" /\ assets = <<>> /\ runs' = runs + 1) =>
       /\ result' = None
       /\ UNCHANGED <<lastpos, main, broker, bases, assets, hedges, hpair,
                      pc, calls, inits, ticks, tickBase, halt, tripped,
                      indicators, lastRead, hooks, bt, peer>>]_vars

C7_Witness ==
  /\ runs > 0
  /\ assets = <<>>
  /\ bases # <<>>
  /\ hedges # <<>>
  /\ hpair.pipeline # None
  /\ result = None
  /\ main = 0
  /\ inits = <<>>
  /\ bt.uid = NoUid

\* C8: a read made by a Pipeline/Strategy next() returns a position at or
\* before the shared cursor, never one for a positive offset, and is made
\* with the clock exactly one step past the cursor the iteration began at;
\* no Line a collaborator holds stands ahead of the clock.
C8_Causality ==
  /\ \A p \in lastRead.pos :
       /\ p <= lastRead.clock
       /\ lastRead.off <= 0
       /\ lastRead.clock = tickBase + 1
       /\ lastRead.clock = main
  /\ \A c \in Curs(bases) \cup Curs(assets) \cup Curs(hedges)
                \cup {i.cur : i \in indicators} : c <= main

C8_Witness ==
  /\ lastRead.off = 1
  /\ lastRead.pos = {}
  /\ lastRead.cur = lastRead.clock
  /\ lastRead.cur + 1 <= lastpos
  /\ lastRead.clock = 1
  /\ pc = "hpipeline.next"

\* C9: add_base(ticker) calls add_carry once exactly when the ticker equals
\* the carry ticker up to letter case, add_curr once exactly when it equals a
\* currency pair up to case, add_market once exactly when it equals the
\* market ticker up to case, no hook otherwise, and stores the base.
SameLetter(c, d) ==
  c = d \/ \E i \in DOMAIN Lower : {c, d} = {Lower[i], Capital[i]}

CaseEq(a, b) == Len(a) = Len(b) /\ \A i \in DOMAIN a : SameLetter(a[i], b[i])

Count(hs, h) == Cardinality({i \in DOMAIN hs : hs[i] = h})

C9_Forwarding ==
  hooks.ticker # NoTicker =>
    /\ Count(hooks.calls, "add_carry")
         = (IF CaseEq(hooks.ticker, _DEFAULT_CARRY) THEN 1 ELSE 0)
    /\ Count(hooks.calls, "add_curr")
         = (IF \E p \in _DEFAULT_PAIRS : CaseEq(hooks.ticker, p)
            THEN 1 ELSE 0)
    /\ Count(hooks.calls, "add_market")
         = (IF CaseEq(hooks.ticker, _DEFAULT_MARKET) THEN 1 ELSE 0)
    /\ \A i \in DOMAIN hooks.calls :
         hooks.calls[i] \in {"add_carry", "add_curr", "add_market"}
    /\ hooks.ticker \in Keys(bases)

C9_Witness ==
  /\ hooks.ticker = CARRY_L
  /\ hooks.calls = <<"add_carry">>
  /\ broker.carry = CARRY_L
  /\ broker.curr = {USDBRL_M}
  /\ Len(bases) = 2

\* C10: two Backtests that have computed their identity have the same one
\* when they agree on factor, market, asset, hedge, base, hbase, vertices,
\* pipeline type name, strategy type name and strategy parameters (whatever
\* their calendars), and different ones when exactly one of these differs.
C10_IdentityOfFields ==
  (bt.uid # NoUid /\ peer.uid # NoUid) =>
    /\ Differ(bt, peer) = {} => bt.uid = peer.uid
    /\ Cardinality(Differ(bt, peer)) = 1 => bt.uid # peer.uid

C10_Witness ==
  /\ bt.uid # NoUid
  /\ peer.uid # NoUid
  /\ Differ(bt, peer) = {"factor"}
  /\ bt.factor = PyNone
  /\ peer.factor = PyStr(NoneText)
  /\ bt.edate # peer.edate

\* C11: the book label is factor-market-asset; with a hedge ticker
\* configured it is extended by "/" under exposure-based hedging or "#" under
\* beta-based hedging, then the hedge ticker; with no hedge ticker (None or
\* the empty string) nothing is appended.  The two labels of the example
\* (RISKPAR-COMMODITIES-BIAU39/DOL, RISKPAR-COMMODITIES-BIAU39) are as written.
BookExample ==
  /\ bt.factor = PyStr(RISKPAR)
  /\ bt.market = PyStr(COMMODITIES)
  /\ bt.asset = PyStr(BIAU39)

C11_Bookname ==
  book # NoBook =>
    LET stem == Str(bt.factor) \o <<"-">> \o Str(bt.market) \o <<"-">>
                  \o Str(bt.asset)
        sep == IF book.method = "EXPO" THEN "/" ELSE "#"
        n == Len(stem)
    IN /\ IsPrefix(stem, book.text)
       /\ IF bt.hedge \in {PyNone, PyStr(<<>>)}
          THEN book.text = stem
          ELSE /\ Len(book.text) = n + 1 + Len(bt.hedge.v)
               /\ book.text[n + 1] = sep
               /\ SubSeq(book.text, n + 2, Len(book.text)) = bt.hedge.v
       /\ (BookExample /\ bt.hedge = PyStr(DOL) /\ book.method = "EXPO")
            => book.text = <<"R", "I", "S", "K", "P", "A", "R", "-",
                             "C", "O", "M", "M", "O", "D", "I", "T", "I", "E",
                             "S", "-", "B", "I", "A", "U", "3", "9", "/",
                             "D", "O", "L">>
       /\ (BookExample /\ bt.hedge = PyNone)
            => book.text = <<"R", "I", "S", "K", "P", "A", "R", "-",
                             "C", "O", "M", "M", "O", "D", "I", "T", "I", "E",
                             "S", "-", "B", "I", "A", "U", "3", "9">>

C11_Witness ==
  /\ BookExample
  /\ bt.hedge = PyStr(DOL)
  /\ book.method = "BETA"
  /\ book.text[Len(book.text) - 3] = "#"

C13_HedgeSeesHedges ==
  /\ Args("hpipeline").main = Args("pipeline").main
  /\ Args("hpipeline").broker = Args("pipeline").broker
  /\ Args("hstrategy").broker = Args("strategy").broker
  /\ Args("hpipeline").assets # Args("pipeline").assets
  /\ hpair # NoPair =>
       /\ held[<<"hpipeline", "assets">>] = hedges
       /\ held[<<"hstrategy", "assets">>] = hedges
       /\ held[<<"hstrategy", "bases">>] = bases
  /\ held[<<"pipeline", "assets">>] = assets
  /\ held[<<"strategy", "assets">>] = assets
  /\ \A i \in DOMAIN ledger : ledger[i].broker = "broker"

C13_AddHedgeFrame ==
  (\E t \in HedgeTickers : AddHedge(t)) =>
    /\ assets' = assets
    /\ held'[<<"pipeline", "assets">>] = held[<<"pipeline", "assets">>]
    /\ held'[<<"strategy", "assets">>] = held[<<"strategy", "assets">>]
    /\ ledger' = ledger

C13_AddAssetFrame ==
  (\E t \in AssetTickers : AddAsset(t)) =>
    /\ hedges' = hedges
    /\ hpair # NoPair =>
         /\ held'[<<"hpipeline", "assets">>] = held[<<"hpipeline", "assets">>]
         /\ held'[<<"hstrategy", "assets">>] = held[<<"hstrategy", "assets">>]
    /\ ledger' = ledger

C14_FirstAndLastBase ==
  bases # <<>> =>
    /\ base(bases).ticker = firstBase
    /\ hbase(bases).ticker = hooks.ticker

\* C15: Backtest(...) raises TypeError when the strategy is no Strategy
\* subclass, the pipeline no Pipeline subclass or the calendar no Calendar,
\* and has then assigned no attribute at all (no clock, registry, Broker,
\* Pipeline or Strategy); with valid arguments it assigns them all.  A
\* config_hedge whose strategy or pipeline is of the wrong kind raises
\* TypeError, builds no hedge pair and changes nothing else.
BadArgs(a) ==
  \/ a.strategy \notin StrategyKinds
  \/ a.pipeline \notin PipelineKinds
  \/ a.calendar.kind # "Calendar"

HasAttr(a) == \E i \in DOMAIN built.attrs : built.attrs[i] = a

C15_ConstructAllOrNothing ==
  built.args # NoArgs =>
    IF BadArgs(built.args)
    THEN /\ result = "TypeError"
         /\ pc = "failed"
         /\ built.attrs = <<>>
         /\ hpair = NoPair
    ELSE /\ pc = "idle"
         /\ \A a \in {"__index", "__main", "__bases", "__assets", "__hedges",
                       "__broker", "__pipeline", "__strategy"} : HasAttr(a)
         /\ lastpos = built.args.calendar.len - 1

C15_ConfigHedgeFailure ==
  \A p \in HedgePipelines, s \in HedgeStrategies :
    (ConfigHedge(p, s) /\ (s \notin StrategyKinds \/ p \notin PipelineKinds))
      => /\ result' = "TypeError"
         /\ UNCHANGED <<lastpos, main, broker, bases, assets, hedges, hpair,
                        pc, held, built, adds, hooks, firstBase>>

C15_TypeChecksFirst ==
  /\ []C15_ConstructAllOrNothing
  /\ [][C15_ConfigHedgeFailure]_vars

C15_Witness ==
  /\ built.args.strategy \in StrategyKinds
  /\ built.args.pipeline \in PipelineKinds
  /\ built.args.calendar.kind = "list"
  /\ result = "TypeError"
  /\ built.attrs = <<>>

\* C16: when the indicator function raises an error (an Exception), I
\* raises a plain Exception in its place and the indicators map is exactly
\* what it was before the call.
C16_Rewrap ==
  \A d \in Datas, f \in Funcs, p \in ParamSets, o \in BOOLEAN :
    (f.raises \in Errors /\ o \in Modes(d) /\ (o \/ d.type = "Asset")
       /\ I(d, f, p, o))
      => /\ result' = "Exception"
         /\ indicators' = indicators

C16_FailedIndicatorLeavesMap == [][C16_Rewrap]_vars

C16_Witness ==
  /\ result = "Exception"
  /\ Cardinality(indicators) = 2

\* C17: a successful I(data, f, **params) adds or replaces exactly one
\* entry of the indicators map and leaves every other entry as it was; the
\* key is the `name` parameter when one is given, else f's name followed by
\* the tuple of the other parameters; f receives the other parameters and
\* never `name`; the entry holds the Line of this call, over data's index.
IsName(q) == q[1] = PyStr(<<"n", "a", "m", "e">>)
IsOther(q) == ~IsName(q)

GivenName(p) == SelectSeq(p, IsName)

ExpectedKey(f, p) ==
  IF GivenName(p) # <<>> /\ GivenName(p)[1][2] # PyNone
  THEN GivenName(p)[1][2].v
  ELSE IF SelectSeq(p, IsOther) = <<>>
       THEN f.name \o <<"(", ")">>
       ELSE f.name \o <<"(", "(", "'", "p", "1", "'", ",", " ", "1", ")",
                         ",", ")">>

C17_Declared ==
  \A d \in Datas, f \in Funcs, p \in ParamSets, o \in BOOLEAN :
    (f.raises = None /\ o \in Modes(d) /\ (o \/ d.type = "Asset")
       /\ I(d, f, p, o))
      => LET key == ExpectedKey(f, p)
         IN /\ Cardinality({e \in indicators' : e.name = key}) = 1
            /\ \A e \in indicators' :
                 e.name = key =>
                   /\ e.line.index = d.index
                   /\ e.line.array.f = f.name
                   /\ e.line.array.args = SelectSeq(p, IsOther)
                   /\ e.cur = 0
            /\ {e \in indicators' : e.name # key}
                 = {e \in indicators : e.name # key}
            /\ result' = None

C17_OneEntryPerKey == [][C17_Declared]_vars

C17_Witness ==
  /\ result = None
  /\ Cardinality(indicators) = 3
  /\ \E e \in indicators :
       /\ e.name = Sig
       /\ e.line.index = "other"
       /\ e.line.array.f = G_
       /\ e.line.array.args # <<>>
  /\ \E e \in indicators : e.name = <<"f", "(", ")">>

\* C18: with a hedge registered and config_hedge never called, a run()
\* that has an asset ends with an error right after the primary
\* Pipeline.init() and Strategy.init(): it never enters the loop, makes no
\* beg_of_period/next/end_of_period call and advances neither the clock, the
\* Broker nor any registered data.
NoHedgePair == hedges # <<>> /\ hpair = NoPair

C18_State ==
  /\ (pc # "idle" /\ NoHedgePair)
       => /\ pc \in {"pipeline.init", "strategy.init", "hpipeline.init"}
          /\ ticks = 0
          /\ calls = <<>>
          /\ assets # <<>>
  /\ result = "AttributeError"
       => /\ pc = "idle"
          /\ inits = <<"pipeline.init", "strategy.init">>
          /\ ticks = 0
          /\ calls = <<>>

C18_Step ==
  (NoHedgePair /\ (pc # "idle" \/ pc' # "idle"))
    => /\ UNCHANGED <<main, broker, bases, assets, hedges, held>>
       /\ pc = "hpipeline.init" => (pc' = "idle" /\ result' = "AttributeError")

C18_UnconfiguredHedgeFailsBeforeLoop == []C18_State /\ [][C18_Step]_vars

C18_Witness ==
  /\ result = "AttributeError"
  /\ Len(assets) = 2
  /\ hedges # <<>>
  /\ main = 0
  /\ lastpos = 2
  /\ inits = <<"pipeline.init", "strategy.init">>

\* C19: two Backtests that agree on every field of the map get the same
\* identifier, whatever their calendars, their registered bases, assets and
\* hedges and their hedge pair; and computing an identity changes neither
\* the registries, nor the clock, nor the Broker.
C19_SameMapSameUid ==
  (bt.uid # NoUid /\ peer.uid # NoUid /\ Differ(bt, peer) = {})
    => bt.uid = peer.uid

C19_IdentityFrame ==
  (bt' # bt \/ peer' # peer)
    => UNCHANGED <<lastpos, main, broker, bases, assets, hedges, held, hpair,
                   ledger>>

C19_OutsideTheMap == []C19_SameMapSameUid /\ [][C19_IdentityFrame]_vars

C19_Witness ==
  /\ bt.uid # NoUid
  /\ bt.uid = peer.uid
  /\ bt.edate # peer.edate
  /\ bases # <<>>
  /\ assets # <<>>
  /\ hedges # <<>>
  /\ hpair # NoPair

\* C20: buy(ticker, size, price) places exactly one Broker order, of size
\* |size|, and sell(ticker, size, price) exactly one of size -|size|,
\* whatever the sign of size; ticker and price reach the Broker as passed
\* and what the Broker hands back is what the method returns.
Last(l) == l[Len(l)]

OneMore(l, m) == Len(m) = Len(l) + 1 /\ SubSeq(m, 1, Len(l)) = l

C20_Placed ==
  \A who \in {"strategy", "hstrategy"}, t \in OrderTickers, size \in Sizes,
     price \in Prices :
    /\ Buy(who, t, size, price)
         => /\ OneMore(ledger, ledger')
            /\ Last(ledger').size = (IF size < 0 THEN 0 - size ELSE size)
            /\ Last(ledger').size >= 0
            /\ Last(ledger').ticker = t
            /\ Last(ledger').price = price
            /\ Last(ledger').returned = Last(ledger').result
    /\ Sell(who, t, size, price)
         => /\ OneMore(ledger, ledger')
            /\ Last(ledger').size = (IF size < 0 THEN size ELSE 0 - size)
            /\ Last(ledger').size <= 0
            /\ Last(ledger').ticker = t
            /\ Last(ledger').price = price
            /\ Last(ledger').returned = Last(ledger').result

C20_SignedOrders == [][C20_Placed]_vars

C20_Witness ==
  /\ Len(ledger) = 2
  /\ ledger[1].via = "buy"
  /\ ledger[1].given.size = -2
  /\ ledger[1].size = 2
  /\ ledger[2].via = "sell"
  /\ ledger[2].given.size = 1
  /\ ledger[2].size = -1

====
